---- MODULE Spec2Model ----
(***************************************************************************)
(* Model of conanfile.py, the Conan recipe of libarmcortex.                *)
(*                                                                         *)
(* The recipe is a class with eleven declared attributes and five methods  *)
(* the package manager calls: requirements(), build_requirements(),        *)
(* package_id(), build() and package().  build() shells out three times    *)
(* (cmake configure, cmake build, ctest); each external command is one     *)
(* step of the model and its exit status is chosen by the environment.     *)
(* File names, reference strings and command lines are sequences of        *)
(* tokens, split at the separators "/", ".", "@" and at blanks.            *)
(*                                                                         *)
(* The calls into the Conan library are modelled by their Conan 1.x        *)
(* behaviour: self.run and the CMake helper raise on a non-zero exit       *)
(* status, self.copy selects files with fnmatch, info.header_only()        *)
(* clears settings, options and requires, and tools.cpu_count() is the     *)
(* CPU count of the host.                                                  *)
(***************************************************************************)
EXTENDS Integers, Sequences, FiniteSets, TLC

VARIABLES attrs, settings_values, should_test, cpu, source_folder,
          pc, log, requires, test_requires, info, package_folder, called

vars == <<attrs, settings_values, should_test, cpu, source_folder,
          pc, log, requires, test_requires, info, package_folder, called>>

(* ---------------------------- bounds ----------------------------------- *)

\* largest CPU count of a host
MaxCpu == 2

\* largest number of files in the repository checkout
MaxFiles == 2

(* ------------------------ declared attributes -------------------------- *)

name == "libarmcortex"

version == <<"0", ".", "0", ".", "1">>

license == "Apache License Version 2.0"

author == "Khalil Estell"

url == "https://github.com/libembeddedhal/libarmcortex"

description == "A collection of interfaces and abstractions for embedded peripherals and devices using modern C++"

topics == <<"peripherals", "hardware">>

settings == <<"os", "compiler", "arch", "build_type">>

generators == "cmake_find_package"

exports_sources == << <<"include", "/", "*">>,
                      <<"CMakeLists", ".", "txt">>,
                      <<"tests", "/", "*">> >>

no_copy_source == TRUE

\* the class body: every attribute with its declared value
Declared ==
    [name |-> name, version |-> version, license |-> license,
     author |-> author, url |-> url, description |-> description,
     topics |-> topics, settings |-> settings, generators |-> generators,
     exports_sources |-> exports_sources, no_copy_source |-> no_copy_source]

(* ----------------------------- environment ----------------------------- *)

\* values the profile can give to the four declared settings
SettingDomain ==
    [os |-> {"Linux", "Windows"},
     compiler |-> {"gcc", "clang"},
     arch |-> {"armv7", "x86_64"},
     build_type |-> {"Debug", "Release"}]

Configurations ==
    { c \in [{settings[i] : i \in 1..Len(settings)} ->
                UNION {SettingDomain[k] : k \in DOMAIN SettingDomain}] :
        \A k \in DOMAIN c : c[k] \in SettingDomain[k] }

\* files a checkout of the repository may hold
RepoUniverse ==
    { <<"include", "/", "dwt", ".", "hpp">>,
      <<"include", "/", "config", ".", "hpp", ".", "in">>,
      <<"CMakeLists", ".", "txt">>,
      <<"tests", "/", "main", ".", "cpp">>,
      <<"tests", "/", "helper", ".", "hpp">>,
      <<"README", ".", "md">> }

\* exit statuses of an external command: 0 is success
ExitStatus == {0, 1}

(* ------------------------------ helpers -------------------------------- *)

\* fnmatch: "*" matches any run of tokens, every other token matches itself
RECURSIVE fnmatch(_, _)
fnmatch(fname, pat) ==
    IF pat = <<>> THEN fname = <<>>
    ELSE IF Head(pat) = "*"
         THEN \/ fnmatch(fname, Tail(pat))
              \/ (fname # <<>> /\ fnmatch(Tail(fname), pat))
         ELSE /\ fname # <<>>
              /\ Head(fname) = Head(pat)
              /\ fnmatch(Tail(fname), Tail(pat))

\* the files of a checkout that exports_sources selects
exported(files) ==
    { f \in files : \E i \in 1..Len(exports_sources) :
                        fnmatch(f, exports_sources[i]) }

\* self.run / CMake._run with the default ignore_errors: a non-zero exit
\* status raises, and nothing in the recipe catches it
run(status, ignore_errors) ==
    IF status # 0 /\ ~ignore_errors THEN "raised" ELSE "next"

configure_command == <<"cmake", "-S", ".">>

build_command == <<"cmake", "--build", ".">>

\* "ctest -j %s --output-on-failure" % tools.cpu_count()
ctest_command_serial(n) ==
    <<"ctest", "-j", ToString(1), "--output-on-failure">>

ctest_command(n) ==
    <<"ctest", "-j", ToString(n), "--output-on-failure">>

Entry(step, cmd, status) == [step |-> step, cmd |-> cmd, status |-> status]

(* ------------------------------- Init ---------------------------------- *)

NoInfo == [computed |-> FALSE]

Init ==
    /\ attrs = Declared
    /\ settings_values \in Configurations
    /\ should_test \in BOOLEAN
    /\ cpu \in 1..MaxCpu
    /\ \E files \in SUBSET RepoUniverse :
          /\ Cardinality(files) <= MaxFiles
          /\ source_folder = exported(files)
    /\ pc = "idle"
    /\ log = <<>>
    /\ requires = {}
    /\ test_requires = {}
    /\ info = NoInfo
    /\ package_folder = {}
    /\ called = {}

(* ------------------------------ build() -------------------------------- *)

Idle == pc \in {"idle", "returned", "raised"}

buildFrame == UNCHANGED <<attrs, settings_values, should_test, cpu, source_folder,
                          requires, test_requires, info, package_folder, called>>

\* entering build(): cmake = CMake(self); the first statement is configure
build_enter_skip_configure ==
    /\ Idle
    /\ pc' = "build"
    /\ log' = <<>>
    /\ buildFrame

build_enter ==
    /\ Idle
    /\ pc' = "configure"
    /\ log' = <<>>
    /\ buildFrame

\* cmake.configure()
cmake_configure_no_raise ==
    /\ pc = "configure"
    /\ \E status \in ExitStatus :
          /\ log' = Append(log, Entry("configure", configure_command, status))
          /\ pc' = "build"
    /\ buildFrame

cmake_configure ==
    /\ pc = "configure"
    /\ \E status \in ExitStatus :
          /\ log' = Append(log, Entry("configure", configure_command, status))
          /\ pc' = IF run(status, FALSE) = "raised" THEN "raised" ELSE "build"
    /\ buildFrame

\* cmake.build(), then the test of self.should_test
cmake_build_always_test ==
    /\ pc = "build"
    /\ \E status \in ExitStatus :
          /\ log' = Append(log, Entry("build", build_command, status))
          /\ pc' = IF run(status, FALSE) = "raised" THEN "raised" ELSE "ctest"
    /\ buildFrame

cmake_build_never_test ==
    /\ pc = "build"
    /\ \E status \in ExitStatus :
          /\ log' = Append(log, Entry("build", build_command, status))
          /\ pc' = IF run(status, FALSE) = "raised" THEN "raised" ELSE "returned"
    /\ buildFrame

cmake_build ==
    /\ pc = "build"
    /\ \E status \in ExitStatus :
          /\ log' = Append(log, Entry("build", build_command, status))
          /\ pc' = IF run(status, FALSE) = "raised" THEN "raised"
                   ELSE IF should_test THEN "ctest"
                   ELSE "returned"
    /\ buildFrame

\* self.run("ctest -j %s --output-on-failure" % tools.cpu_count())
run_ctest_ignore_errors ==
    /\ pc = "ctest"
    /\ \E status \in ExitStatus :
          /\ log' = Append(log, Entry("ctest", ctest_command(cpu), status))
          /\ pc' = IF run(status, TRUE) = "raised" THEN "raised" ELSE "returned"
    /\ buildFrame

run_ctest ==
    /\ pc = "ctest"
    /\ \E status \in ExitStatus :
          /\ log' = Append(log, Entry("ctest", ctest_command(cpu), status))
          /\ pc' = IF run(status, FALSE) = "raised" THEN "raised" ELSE "returned"
    /\ buildFrame

(* ------------------------- the other methods --------------------------- *)

\* self.copy(pattern): the files of the source folder the pattern matches
copy_everything(pattern, src) == src

copy(pattern, src) == { f \in src : fnmatch(f, pattern) }

\* package(): self.copy("*.hpp")
package ==
    /\ Idle
    /\ package_folder' = package_folder \cup copy(<<"*", ".", "hpp">>, source_folder)
    /\ called' = called \cup {"package"}
    /\ UNCHANGED <<attrs, settings_values, should_test, cpu, source_folder,
                   pc, log, requires, test_requires, info>>

\* the information the package identity is computed from
ConanInfo_create(values, reqs) ==
    [computed |-> TRUE,
     settings |-> { <<attrs.settings[i], values[attrs.settings[i]]>> :
                        i \in 1..Len(attrs.settings) },
     options |-> {},
     requires |-> reqs]

\* self.info.header_only(): clears settings, options and requires
header_only_keeps_settings(i) ==
    [i EXCEPT !.options = {}, !.requires = {}]

header_only(i) ==
    [i EXCEPT !.settings = {}, !.options = {}, !.requires = {}]

\* the identity is a digest of the three parts of the information
info_package_id(i) == <<i.settings, i.options, i.requires>>

\* package_id(): self.info.header_only()
package_id_clears_recipe_settings ==
    /\ Idle
    /\ info' = header_only(ConanInfo_create(settings_values, requires))
    /\ attrs' = [attrs EXCEPT !.settings = <<>>]
    /\ called' = called \cup {"package_id"}
    /\ UNCHANGED <<settings_values, should_test, cpu, source_folder,
                   pc, log, requires, test_requires, package_folder>>

package_id ==
    /\ Idle
    /\ info' = header_only(ConanInfo_create(settings_values, requires))
    /\ called' = called \cup {"package_id"}
    /\ UNCHANGED <<attrs, settings_values, should_test, cpu, source_folder,
                   pc, log, requires, test_requires, package_folder>>

libembeddedhal_ref == <<"libembeddedhal", "/", "0", ".", "0", ".", "1", "@">>

libxbitset_ref == <<"libxbitset", "/", "0", ".", "0", ".", "1", "@">>

boost_ext_ut_ref == <<"boost-ext-ut", "/", "1", ".", "1", ".", "8", "@">>

\* requirements(): two self.requires calls
requirements_with_ut ==
    /\ Idle
    /\ requires' = requires \cup {libembeddedhal_ref, libxbitset_ref, boost_ext_ut_ref}
    /\ called' = called \cup {"requirements"}
    /\ UNCHANGED <<attrs, settings_values, should_test, cpu, source_folder,
                   pc, log, test_requires, info, package_folder>>

requirements ==
    /\ Idle
    /\ requires' = (requires \cup {libembeddedhal_ref}) \cup {libxbitset_ref}
    /\ called' = called \cup {"requirements"}
    /\ UNCHANGED <<attrs, settings_values, should_test, cpu, source_folder,
                   pc, log, test_requires, info, package_folder>>

\* build_requirements(): one self.test_requires call
build_requirements ==
    /\ Idle
    /\ test_requires' = test_requires \cup {boost_ext_ut_ref}
    /\ called' = called \cup {"build_requirements"}
    /\ UNCHANGED <<attrs, settings_values, should_test, cpu, source_folder,
                   pc, log, requires, info, package_folder>>

(* ------------------------------- Spec ---------------------------------- *)

Next ==
    \/ build_enter
    \/ cmake_configure
    \/ cmake_build
    \/ run_ctest
    \/ package
    \/ package_id
    \/ requirements
    \/ build_requirements

Spec == Init /\ [][Next]_vars

(* --------------------------- the properties ---------------------------- *)

\* positions in the log of the current build() call where a step was invoked
Steps(s) == { i \in 1..Len(log) : log[i].step = s }

\* C1: in every build() call the configure step is invoked, and has
\* returned, before the build step is started
ConfigureBeforeBuild ==
    /\ \A i \in Steps("build") :
          \E j \in 1..(i - 1) : log[j].step = "configure" /\ log[j].status = 0
    /\ pc = "build" =>
          \E j \in 1..Len(log) : log[j].step = "configure" /\ log[j].status = 0

ConfigureBeforeBuildWitness ==
    /\ Steps("build") # {}
    /\ Steps("configure") # {}

\* C2: when should_test is false no test-runner command is run, whatever
\* the outcome of configure and build
NoTestsUnlessShouldTest ==
    ~should_test =>
        /\ pc # "ctest"
        /\ \A i \in 1..Len(log) : log[i].step # "ctest" /\ Head(log[i].cmd) # "ctest"

NoTestsUnlessShouldTestWitness ==
    /\ ~should_test
    /\ pc = "returned"
    /\ Steps("build") # {}

\* C3: each external step is invoked at most once per build() call, a
\* failed step is the last one invoked, and build() then ends in failure
FailuresPropagate ==
    /\ \A s \in {"configure", "build", "ctest"} : Cardinality(Steps(s)) <= 1
    /\ \A i \in 1..Len(log) :
          log[i].status # 0 => (i = Len(log) /\ pc = "raised")

FailuresPropagateWitness ==
    /\ pc = "raised"
    /\ Len(log) = 1
    /\ log[1].step = "configure"
    /\ log[1].status # 0

\* C4: build() never completes successfully after a test-runner invocation
\* that exited non-zero
TestFailureFailsBuild ==
    (\E i \in Steps("ctest") : log[i].status # 0) => pc # "returned"

TestFailureFailsBuildWitness ==
    /\ pc = "raised"
    /\ \E i \in Steps("ctest") : log[i].status # 0

\* C5: the package identity is the same for every configuration of the
\* settings os, compiler, arch and build_type
IdentityIgnoresSettings ==
    info.computed =>
        \A c \in Configurations :
            info_package_id(header_only(ConanInfo_create(c, requires)))
                = info_package_id(info)

IdentityIgnoresSettingsWitness ==
    /\ info.computed
    /\ "package_id" \in called
    /\ settings_values.os = "Windows"
    /\ settings_values.build_type = "Release"

HeaderExtensions == {"h", "hh", "hpp", "hxx"}

IsHeaderFile(f) ==
    /\ Len(f) >= 3
    /\ f[Len(f) - 1] = "."
    /\ f[Len(f)] \in HeaderExtensions

\* C6: every file package() places in the package folder is a header
\* file; no other exported file is copied
PackageOnlyHeaders ==
    /\ \A f \in package_folder : IsHeaderFile(f)
    /\ \A f \in source_folder : ~IsHeaderFile(f) => f \notin package_folder

PackageOnlyHeadersWitness ==
    /\ "package" \in called
    /\ package_folder # {}
    /\ source_folder \ package_folder # {}

\* C7: the test runner is invoked with a job count equal to the CPU count
\* of the host and with the output-on-failure flag
CtestJobsEqualCpuCount ==
    \A i \in Steps("ctest") :
        LET cmd == log[i].cmd
        IN  /\ Len(cmd) = 4
            /\ cmd[1] = "ctest"
            /\ cmd[2] = "-j"
            /\ \E n \in 1..(MaxCpu + 1) : n = cpu /\ cmd[3] = ToString(n)
            /\ cmd[4] = "--output-on-failure"

CtestJobsEqualCpuCountWitness ==
    /\ Steps("ctest") # {}
    /\ cpu > 1

\* the parts of a reference "name/version@"
RECURSIVE IndexOf(_, _)
IndexOf(seq, tok) ==
    IF seq = <<>> THEN 1
    ELSE IF Head(seq) = tok THEN 1
    ELSE 1 + IndexOf(Tail(seq), tok)

ref_name(r) == SubSeq(r, 1, IndexOf(r, "/") - 1)

ref_version(r) == SubSeq(r, IndexOf(r, "/") + 1, IndexOf(r, "@") - 1)

WellFormed(r) ==
    /\ IndexOf(r, "/") < IndexOf(r, "@")
    /\ IndexOf(r, "@") = Len(r)
    /\ ref_name(r) # <<>>
    /\ ref_version(r) # <<>>

\* C8: once requirements() and build_requirements() have run there are
\* exactly two runtime requirements and one test requirement, the two sets
\* are disjoint and every reference is well formed
DeclaredDependencies ==
    {"requirements", "build_requirements"} \subseteq called =>
        /\ Cardinality(requires) = 2
        /\ { ref_name(r) : r \in requires } = { <<"libembeddedhal">>, <<"libxbitset">> }
        /\ Cardinality(test_requires) = 1
        /\ { ref_name(r) : r \in test_requires } = { <<"boost-ext-ut">> }
        /\ requires \cap test_requires = {}
        /\ \A r \in requires \cup test_requires : WellFormed(r)

DeclaredDependenciesWitness ==
    /\ {"requirements", "build_requirements"} \subseteq called
    /\ requires # {}
    /\ test_requires # {}

\* C9: the declared attributes keep their declared values through every
\* sequence of operations, and the version is non-empty
MetadataNeverMutated ==
    /\ attrs = Declared
    /\ Len(attrs.version) > 0

MetadataNeverMutatedWitness ==
    /\ called = {"requirements", "build_requirements", "package_id", "package"}
    /\ pc = "returned"
    /\ Len(log) >= 2

\* C10: when should_test holds and configure and build succeed, the test
\* runner is invoked exactly once, right after the build step, and build()
\* does not return without it
TestsRunOnceAfterBuild ==
    /\ \A i \in Steps("ctest") :
          /\ i = 3
          /\ log[1].step = "configure" /\ log[1].status = 0
          /\ log[2].step = "build" /\ log[2].status = 0
    /\ pc = "ctest" => (Len(log) = 2 /\ log[2].step = "build" /\ log[2].status = 0)
    /\ (should_test /\ pc = "returned") => Cardinality(Steps("ctest")) = 1

TestsRunOnceAfterBuildWitness ==
    /\ should_test
    /\ pc = "returned"
    /\ Steps("ctest") = {3}

====
